---------------------------- MODULE Spec2Model ----------------------------
(***************************************************************************)
(* DoctoSync: one-way synchronisation of Doctolib appointments to a Google *)
(* calendar (src/doctosync.py).                                            *)
(*                                                                         *)
(* A Python str is a sequence of tokens (each token a TLA+ string); ''     *)
(* and None, which the code only tests for truthiness, are both <<>>.      *)
(* A Python dict is a record whose DOMAIN is the set of keys present.      *)
(***************************************************************************)
EXTENDS Integers, Sequences, FiniteSets, TLC

\* ------------------------------------------------------------ bounds
\* scheduled executions of main() that a behaviour holds
MaxRuns == 2
\* the --weeks argument of main()
NWeeks == 2
\* records in a Doctolib response, where a single week is synchronised
MaxAppts == 3
\* gateway calls or fetches that may fail in one behaviour
MaxFaults == 1

\* ------------------------------------------------------------ program constants
\* config['config'].get('notification', 30)
DefaultNotification == 30
\* config['config'].get('first_of_day', 0)
DefaultFirstOfDay == 0

\* ------------------------------------------------------------ strings
EmptyDict == [k \in {} |-> k]

Get(d, k, default) == IF k \in DOMAIN d THEN d[k] ELSE default

Whitespace == {" "}

RECURSIVE LStrip(_)
LStrip(s) ==
    IF s # <<>> /\ Head(s) \in Whitespace THEN LStrip(Tail(s)) ELSE s

RECURSIVE RStrip(_)
RStrip(s) ==
    IF s # <<>> /\ s[Len(s)] \in Whitespace
    THEN RStrip(SubSeq(s, 1, Len(s) - 1))
    ELSE s

\* str.strip()
Strip(s) == RStrip(LStrip(s))

\* sep in s
Contains(s, sep) == \E i \in 1..Len(s) : s[i] = sep

\* position of the first sep in s, Len(s) + 1 when there is none
RECURSIVE Find(_, _, _)
Find(s, sep, i) ==
    IF i > Len(s) \/ s[i] = sep THEN i ELSE Find(s, sep, i + 1)

\* s.split(sep): the list of the pieces between the separators
RECURSIVE Split(_, _)
Split(s, sep) ==
    LET p == Find(s, sep, 1)
    IN  IF p > Len(s)
        THEN <<s>>
        ELSE <<SubSeq(s, 1, p - 1)>> \o Split(SubSeq(s, p + 1, Len(s)), sep)

\* the tokens of the model in the order of Python's string comparison
TokenOrder ==
    << " ", "09:00", "09:30", "11:00", "11:30",
       "2025-01-06", "2025-01-07", "2025-01-13", "2025-01-20", "2025-01-27",
       "T" >>

Rank(tok) == CHOOSE i \in 1..Len(TokenOrder) : TokenOrder[i] = tok

\* s < t on strings
RECURSIVE StrLess(_, _)
StrLess(s, t) ==
    IF t = <<>> THEN FALSE
    ELSE IF s = <<>> THEN TRUE
    ELSE IF Head(s) = Head(t) THEN StrLess(Tail(s), Tail(t))
    ELSE Rank(Head(s)) < Rank(Head(t))

\* str.lower() of a status value
Lower(s) ==
    [i \in 1..Len(s) |->
        CASE s[i] \in {"DELETED", "Deleted"} -> "deleted"
          [] OTHER -> s[i]]

\* str(bool)
StrBool(b) == IF b THEN <<"True">> ELSE <<"False">>

\* ------------------------------------------------------------ the weeks
\* get_start_of_current_week() + timedelta(weeks=i): the Monday of week w
Monday == <<"2025-01-06", "2025-01-13", "2025-01-20", "2025-01-27">>

Tuesday == "2025-01-07"

Weeks == 1..NWeeks

\* the week whose window [Monday, Monday + 7 days) holds an event start
WeekOfDay(day) ==
    IF day = <<Tuesday>> THEN 1
    ELSE IF \E w \in 1..Len(Monday) : <<Monday[w]>> = day
         THEN CHOOSE w \in 1..Len(Monday) : <<Monday[w]>> = day
         ELSE 0

DateTime(day, time) == <<day, "T", time>>

DayOf(datetime) == Split(datetime, "T")[1]

WeekOfEvent(event) == WeekOfDay(DayOf(event.start.dateTime))


\* dict with d[k] = v set
Put(d, k, v) == [x \in DOMAIN d \cup {k} |-> IF x = k THEN v ELSE d[x]]

\* ------------------------------------------------------------ fetch_appointments
\* mutant: the status is compared without lower()
CleanOneCaseSensitive(appointment) ==
    LET is_new_patient == Get(appointment, "new_patient", FALSE)
        status_value == Get(appointment, "status", <<"confirmed">>)
        cleaned_rdv ==
            [ start_date |-> Get(appointment, "start_date", <<>>),
              end_date |-> Get(appointment, "end_date", <<>>),
              new_patient |-> is_new_patient,
              status |-> status_value,
              summary |-> IF is_new_patient THEN <<"Nouveau patient">> ELSE <<"Suivi">> ]
    IN  IF status_value = <<"deleted">> THEN <<>>
        ELSE IF cleaned_rdv.start_date # <<>> /\ cleaned_rdv.end_date # <<>>
             THEN <<cleaned_rdv>>
             ELSE <<>>

\* one record of the response: None when it is filtered out, else the cleaned record
CleanOne(appointment) ==
    LET is_new_patient == Get(appointment, "new_patient", FALSE)
        status_value == Get(appointment, "status", <<"confirmed">>)
        cleaned_rdv ==
            [ start_date |-> Get(appointment, "start_date", <<>>),
              end_date |-> Get(appointment, "end_date", <<>>),
              new_patient |-> is_new_patient,
              status |-> status_value,
              summary |-> IF is_new_patient THEN <<"Nouveau patient">> ELSE <<"Suivi">> ]
    IN  IF Lower(status_value) = <<"deleted">> THEN <<>>
        ELSE IF cleaned_rdv.start_date # <<>> /\ cleaned_rdv.end_date # <<>>
             THEN <<cleaned_rdv>>
             ELSE <<>>

\* cleaned_data of fetch_appointments for the response's data
RECURSIVE CleanedData(_)
CleanedData(data) ==
    IF data = <<>> THEN <<>>
    ELSE CleanOne(Head(data)) \o CleanedData(Tail(data))

\* ignored_count of fetch_appointments
RECURSIVE IgnoredCount(_)
IgnoredCount(data) ==
    IF data = <<>> THEN 0
    ELSE (IF Lower(Get(Head(data), "status", <<"confirmed">>)) = <<"deleted">> THEN 1 ELSE 0)
         + IgnoredCount(Tail(data))

\* ------------------------------------------------------------ get_existing_events
Marker == "SYNC_KEY:"

\* mutant: the blanks around the key are kept
ExtractSyncKeyUnstripped(event) ==
    LET description == Get(event, "description", <<>>)
    IN  IF Contains(description, Marker)
        THEN Split(description, Marker)[2]
        ELSE <<>>

\* the sync key stored in an event's description, None (<<>>) without the marker
ExtractSyncKey(event) ==
    LET description == Get(event, "description", <<>>)
    IN  IF Contains(description, Marker)
        THEN Strip(Split(description, Marker)[2])
        ELSE <<>>

\* mutant: the loop over the listed events stops at the first one that carries a key
RECURSIVE BuildExistingMapFirstOnly(_, _)
BuildExistingMapFirstOnly(events, existing) ==
    IF events = <<>> THEN existing
    ELSE IF ExtractSyncKey(Head(events)) # <<>>
         THEN Put(existing, ExtractSyncKey(Head(events)), Head(events))
         ELSE BuildExistingMapFirstOnly(Tail(events), existing)

\* mutant: events are entered in the map whether or not they carry a key
RECURSIVE BuildExistingMapUnfiltered(_, _)
BuildExistingMapUnfiltered(events, existing) ==
    IF events = <<>> THEN existing
    ELSE BuildExistingMapUnfiltered(Tail(events),
             Put(existing, ExtractSyncKey(Head(events)), Head(events)))

\* existing_events_map after the loop over the listed events
RECURSIVE BuildExistingMap(_, _)
BuildExistingMap(events, existing) ==
    IF events = <<>> THEN existing
    ELSE LET event == Head(events)
             sync_key == ExtractSyncKey(event)
         IN  BuildExistingMap(Tail(events),
                 IF sync_key # <<>> THEN Put(existing, sync_key, event) ELSE existing)

\* ------------------------------------------------------------ synchronize_week
\* mutant: the status is part of the key
SyncKeyWithStatus(rdv) ==
    rdv.start_date \o <<"|">> \o rdv.end_date \o <<"|">> \o StrBool(rdv.new_patient)
        \o <<"|">> \o rdv.status

\* the f-string of the identity key
SyncKey(rdv) ==
    rdv.start_date \o <<"|">> \o rdv.end_date \o <<"|">> \o StrBool(rdv.new_patient)

\* x inserted behind every element whose start_date is not greater
RECURSIVE InsertByStart(_, _)
InsertByStart(sorted, x) ==
    IF sorted = <<>> THEN <<x>>
    ELSE IF StrLess(x.start_date, Head(sorted).start_date)
         THEN <<x>> \o sorted
         ELSE <<Head(sorted)>> \o InsertByStart(Tail(sorted), x)

\* mutant: the list is left in fetch order
Unsorted(appts) == appts

\* list.sort(key=start_date): ascending and stable
RECURSIVE SortByStart(_)
SortByStart(appts) ==
    IF appts = <<>> THEN <<>>
    ELSE InsertByStart(SortByStart(SubSeq(appts, 1, Len(appts) - 1)), appts[Len(appts)])

\* reminder_minutes of the loop body, given last_day_processed
ReminderMinutes(rdv, last_day, default_reminder, first_of_day_reminder) ==
    IF DayOf(rdv.start_date) # last_day /\ first_of_day_reminder > 0
    THEN first_of_day_reminder
    ELSE default_reminder

\* mutant: 0 minutes become an explicit override
RemindersAlwaysOverride(reminder_minutes) ==
    IF reminder_minutes >= 0
    THEN [ useDefault |-> FALSE,
           overrides |-> <<[method |-> "popup", minutes |-> reminder_minutes]>> ]
    ELSE [ useDefault |-> TRUE ]

\* target_body['reminders']
Reminders(reminder_minutes) ==
    IF reminder_minutes > 0
    THEN [ useDefault |-> FALSE,
           overrides |-> <<[method |-> "popup", minutes |-> reminder_minutes]>> ]
    ELSE [ useDefault |-> TRUE ]

\* mutant: the description does not carry the key
BuildEventBodyNoKey(rdv, sync_key, location_address, reminder_minutes) ==
    LET target_body ==
            [ summary |-> rdv.summary \o <<" ", "[">> \o rdv.status \o <<"]">>,
              description |-> <<"Synchronise depuis Doctolib.">>,
              start |-> [dateTime |-> rdv.start_date, timeZone |-> "Europe/Paris"],
              end |-> [dateTime |-> rdv.end_date, timeZone |-> "Europe/Paris"],
              reminders |-> Reminders(reminder_minutes) ]
    IN  IF location_address # <<>>
        THEN Put(target_body, "location", location_address)
        ELSE target_body

\* mutant: the location is left out of the body
BuildEventBodyNoLocation(rdv, sync_key, location_address, reminder_minutes) ==
    [ summary |-> rdv.summary \o <<" ", "[">> \o rdv.status \o <<"]">>,
      description |-> <<"Synchronise depuis Doctolib.", " ", Marker, " ">> \o sync_key,
      start |-> [dateTime |-> rdv.start_date, timeZone |-> "Europe/Paris"],
      end |-> [dateTime |-> rdv.end_date, timeZone |-> "Europe/Paris"],
      reminders |-> Reminders(reminder_minutes) ]

\* _build_event_body (the accent of the description's first word is left out)
BuildEventBody(rdv, sync_key, location_address, reminder_minutes) ==
    LET target_body ==
            [ summary |-> rdv.summary \o <<" ", "[">> \o rdv.status \o <<"]">>,
              description |-> <<"Synchronise depuis Doctolib.", " ", Marker, " ">> \o sync_key,
              start |-> [dateTime |-> rdv.start_date, timeZone |-> "Europe/Paris"],
              end |-> [dateTime |-> rdv.end_date, timeZone |-> "Europe/Paris"],
              reminders |-> Reminders(reminder_minutes) ]
    IN  IF location_address # <<>>
        THEN Put(target_body, "location", location_address)
        ELSE target_body

\* mutant: the reminders are left out of the comparison
NeedsUpdateLocationOnly(current_event, target_body, location_address) ==
    Strip(Get(current_event, "location", <<>>)) # location_address

\* mutant: the whole event is compared with the whole body
NeedsUpdateWholeBody(current_event, target_body, location_address) ==
    target_body # current_event

\* the test that decides an update
NeedsUpdate(current_event, target_body, location_address) ==
    LET current_loc == Strip(Get(current_event, "location", <<>>))
        current_reminders == Get(current_event, "reminders", EmptyDict)
    IN  current_loc # location_address \/ target_body.reminders # current_reminders

\* ------------------------------------------------------------ inputs
\* records the Doctolib API may return for the first week
RecordA == [ start_date |-> DateTime(Monday[1], "09:00"),
             end_date |-> DateTime(Monday[1], "09:30"),
             new_patient |-> FALSE ]
\* the same slot again, with another status
RecordA2 == Put(RecordA, "status", <<"no_show">>)
RecordB == [ start_date |-> DateTime(Monday[1], "11:00"),
             end_date |-> DateTime(Monday[1], "11:30"),
             new_patient |-> FALSE, status |-> <<"confirmed">> ]
RecordC == [ start_date |-> DateTime(Tuesday, "09:30"),
             end_date |-> DateTime(Tuesday, "11:00"),
             new_patient |-> TRUE, status |-> <<"confirmed">> ]
\* a deleted appointment in the slot of RecordA
RecordX == Put(RecordA, "status", <<"Deleted">>)
\* a record without end_date
RecordY == [ start_date |-> DateTime(Monday[1], "11:00"), new_patient |-> FALSE ]

FirstWeekRecords == {RecordA, RecordB, RecordC, RecordX, RecordY}

SeqsUpTo(S, n) == UNION {[1..k -> S] : k \in 0..n}

\* the record a later week holds
LaterRecord(w) == [ start_date |-> DateTime(Monday[w], "09:00"),
                    end_date |-> DateTime(Monday[w], "09:30"),
                    new_patient |-> TRUE, status |-> <<"confirmed">> ]

\* the responses of the Doctolib API for week w
Responses(w) ==
    IF w = 1
    THEN { <<>>, <<RecordA>>, <<RecordB, RecordA>>, <<RecordA, RecordA2>> }
    ELSE {<<LaterRecord(w)>>}

\* the responses where a single week is synchronised
SingleWeekResponses == SeqsUpTo(FirstWeekRecords, MaxAppts)

\* config['config'] of config.yaml: every key is optional
AllConfigs ==
    { n @@ f @@ l :
        n \in {EmptyDict, [notification |-> 0]},
        f \in {EmptyDict, [first_of_day |-> 60]},
        l \in {EmptyDict, [localisation |-> <<" ", "Clinic A", " ">>]} }

\* the configurations of the runs over several weeks
Configs ==
    { [first_of_day |-> 60],
      [notification |-> 0, localisation |-> <<" ", "Clinic A", " ">>] }

\* events the destination calendar may hold before the first run
\* an event of the user's own, without description
Foreign1 == [ id |-> 1, summary |-> <<"Dentist">>,
              start |-> [dateTime |-> DateTime(Monday[1], "09:00")],
              end |-> [dateTime |-> DateTime(Monday[1], "09:30")],
              reminders |-> [useDefault |-> TRUE] ]
\* an event of the user's own whose description ends with the bare marker
Foreign2 == [ id |-> 2, summary |-> <<"Lunch">>,
              description |-> <<"note", " ", Marker, " ">>,
              location |-> <<"Home">>,
              start |-> [dateTime |-> DateTime(Monday[1], "11:00")],
              end |-> [dateTime |-> DateTime(Monday[1], "11:30")],
              reminders |-> [useDefault |-> TRUE] ]
\* an event written by an earlier run for RecordA: no location, default reminders
SyncedA ==
    LET rdv == CleanOne(RecordA)[1]
    IN  Put(BuildEventBody(rdv, SyncKey(rdv), <<>>, 0), "id", 3)
\* a second event carrying the key of RecordA
SyncedA2 ==
    LET rdv == CleanOne(RecordA2)[1]
    IN  Put(BuildEventBody(rdv, SyncKey(rdv), <<"Clinic A">>, 30), "id", 4)
\* an event written by an earlier run for RecordB
SyncedB ==
    LET rdv == CleanOne(RecordB)[1]
    IN  Put(BuildEventBody(rdv, SyncKey(rdv), <<"Clinic A">>, 30), "id", 5)

\* the event of RecordB after its location was edited by hand: a blank was appended
SyncedB2 ==
    LET rdv == CleanOne(RecordB)[1]
    IN  Put(BuildEventBody(rdv, SyncKey(rdv), <<"Clinic A", " ">>, 30), "id", 6)

ForeignEvents == {Foreign1, Foreign2}

SyncedEvents == {SyncedA, SyncedA2, SyncedB}

InitialEvents == ForeignEvents \cup SyncedEvents \cup {SyncedB2}

\* the marked events of the calendar before the first run
AllCalendars == SUBSET SyncedEvents \cup {{SyncedB2}, {SyncedA, SyncedB2}}

\* those of the runs over several weeks
Calendars == { {}, {SyncedA}, {SyncedA, SyncedB}, {SyncedA, SyncedA2} }

\* ids above those of the initial events are free
FirstFreeId == Cardinality(InitialEvents) + 1

\* ------------------------------------------------------------ state
VARIABLES
    config,                 \* config['config']
    feed,                   \* feed[w]: the data of the Doctolib response for week w
    n_weeks,                \* args.weeks
    calendar,               \* the events of the Google calendar
    next_id,                \* the id Google gives the next inserted event
    run,                    \* executions of main() started so far
    i,                      \* the loop variable of main()
    pc,                     \* where main() stands
    appointments_to_sync,   \* the list main() passes to synchronize_week
    existing_events_map,    \* the result of get_existing_events
    idx,                    \* position of the for loop over appointments_to_sync
    last_day_processed,
    events_to_delete_keys,
    visited,                \* keys the deletion loop has visited
    stats,
    budget,                 \* executions of main() and failures still to come
    fetched,                \* history: how the last fetch_appointments call ended
    listed,                 \* history: the events the last events().list call returned
    assigned,               \* history: reminder_minutes of each appointment of the loop
    log,                    \* history: the gateway calls of this execution, in order
    weeks_done,             \* history: the synchronize_week calls that returned
    prev_log,               \* history: log of the previous execution
    prev_weeks_done         \* history: weeks_done of the previous execution

inputs == << config, feed, n_weeks >>

gateway == << calendar, next_id >>

week_locals == << appointments_to_sync, existing_events_map, listed >>

loop_locals == << idx, last_day_processed, events_to_delete_keys, visited, stats, assigned >>

history == << log, weeks_done, prev_log, prev_weeks_done >>

vars == << inputs, gateway, run, i, pc, week_locals, loop_locals, budget, fetched,
           history >>

default_reminder == Get(config, "notification", DefaultNotification)
first_of_day_reminder == Get(config, "first_of_day", DefaultFirstOfDay)
location_address == Strip(Get(config, "localisation", <<>>))

\* the week main() is synchronising
week == i + 1

Start ==
    /\ next_id = FirstFreeId
    /\ run = 0
    /\ i = 0
    /\ pc = "idle"
    /\ appointments_to_sync = <<>>
    /\ listed = {}
    /\ existing_events_map = EmptyDict
    /\ idx = 1
    /\ last_day_processed = <<>>
    /\ events_to_delete_keys = {}
    /\ visited = {}
    /\ stats = [create |-> 0, update |-> 0]
    /\ fetched = "none"
    /\ assigned = <<>>
    /\ log = <<>>
    /\ weeks_done = <<>>
    /\ prev_log = <<>>
    /\ prev_weeks_done = <<>>

\* main() run MaxRuns times over NWeeks weeks, with up to MaxFaults failures
Init ==
    /\ Start
    /\ calendar \in {ForeignEvents \cup c : c \in Calendars}
    /\ config \in Configs
    /\ n_weeks = NWeeks
    /\ feed \in {f \in [Weeks -> UNION {Responses(w) : w \in Weeks}] :
                    \A w \in Weeks : f[w] \in Responses(w)}
    /\ budget = [runs |-> MaxRuns, faults |-> MaxFaults]

\* main() run once over one week, without failure
InitSingleWeek ==
    /\ Start
    /\ calendar \in {ForeignEvents \cup c : c \in AllCalendars}
    /\ config \in AllConfigs
    /\ n_weeks = 1
    /\ feed \in [{1} -> SingleWeekResponses]
    /\ budget = [runs |-> 1, faults |-> 0]

\* ------------------------------------------------------------ the Google calendar
\* events().list(timeMin, timeMax, orderBy='startTime'): the events of the week's
\* window in ascending start order; events with equal starts come in any order
RECURSIVE Orderings(_)
Orderings(evs) ==
    IF evs = {} THEN {<<>>}
    ELSE LET earliest == {e \in evs : \A x \in evs :
                             ~StrLess(x.start.dateTime, e.start.dateTime)}
         IN  UNION {{<<e>> \o s : s \in Orderings(evs \ {e})} : e \in earliest}

Listings(w) == Orderings({e \in calendar : WeekOfEvent(e) = w})

\* events().insert(body): the calendar with the new event
Inserted(body) == calendar \cup {Put(body, "id", next_id)}

\* events().update(eventId, body): the event's content is replaced
Updated(eventId, body) ==
    {e \in calendar : e.id # eventId}
        \cup {Put(body, "id", eventId) : e \in {x \in calendar : x.id = eventId}}

\* events().delete(eventId)
Deleted(eventId) == {e \in calendar : e.id # eventId}

\* a gateway call: .execute() raises HttpError when ok is FALSE
Call(op, key, id, ok, body) ==
    [week |-> week, op |-> op, key |-> key, id |-> id, ok |-> ok, body |-> body]

Fault ==
    /\ budget.faults > 0
    /\ budget' = [budget EXCEPT !.faults = @ - 1]

Outcome(ok) == IF ok THEN UNCHANGED budget ELSE Fault

\* ------------------------------------------------------------ main
\* main() is started (by hand or by the scheduler) once the previous execution ended
StartRun ==
    /\ pc \in {"idle", "returned", "stopped", "crashed"}
    /\ budget.runs > 0
    /\ budget' = [budget EXCEPT !.runs = @ - 1]
    /\ run' = run + 1
    /\ i' = 0
    /\ pc' = "fetch"
    /\ prev_log' = log
    /\ prev_weeks_done' = weeks_done
    /\ log' = <<>>
    /\ weeks_done' = <<>>
    /\ fetched' = "none"
    /\ UNCHANGED << inputs, gateway, week_locals, loop_locals >>

\* fetch_appointments returns the cleaned data of the response
FetchAppointments ==
    /\ pc = "fetch"
    /\ i < n_weeks
    /\ appointments_to_sync' = CleanedData(feed[week])
    /\ fetched' = "ok"
    /\ pc' = "list"
    /\ UNCHANGED << inputs, gateway, run, i, existing_events_map, listed,
                    loop_locals, budget, history >>

\* the cookie file is missing: fetch_appointments returns [], 0
FetchNoCookies ==
    /\ pc = "fetch"
    /\ i < n_weeks
    /\ Fault
    /\ appointments_to_sync' = <<>>
    /\ fetched' = "no_cookies"
    /\ pc' = "list"
    /\ UNCHANGED << inputs, gateway, run, i, existing_events_map, listed,
                    loop_locals, history >>

\* mutant: the week is skipped and main() goes on with the next one
FetchHttpErrorSkipsWeek ==
    /\ pc = "fetch"
    /\ i < n_weeks
    /\ Fault
    /\ fetched' = "http_error"
    /\ i' = i + 1
    /\ UNCHANGED << inputs, gateway, run, pc, week_locals, loop_locals, history >>

\* raise_for_status() raises HTTPError: main() prints the error and returns
FetchHttpError ==
    /\ pc = "fetch"
    /\ i < n_weeks
    /\ Fault
    /\ fetched' = "http_error"
    /\ pc' = "stopped"
    /\ UNCHANGED << inputs, gateway, run, i, week_locals, loop_locals, history >>

\* requests.get raises ConnectionError or Timeout, which main() does not catch
FetchUnreachable ==
    /\ pc = "fetch"
    /\ i < n_weeks
    /\ Fault
    /\ fetched' = "unreachable"
    /\ pc' = "crashed"
    /\ UNCHANGED << inputs, gateway, run, i, week_locals, loop_locals, history >>

\* the for loop of main() is exhausted
MainReturns ==
    /\ pc = "fetch"
    /\ i >= n_weeks
    /\ pc' = "returned"
    /\ UNCHANGED << inputs, gateway, run, i, week_locals, loop_locals, budget,
                    fetched, history >>

\* events().list raises HttpError, which neither get_existing_events nor main() catches
ListHttpError ==
    /\ pc = "list"
    /\ Fault
    /\ pc' = "crashed"
    /\ UNCHANGED << inputs, gateway, run, i, week_locals, loop_locals, fetched, history >>

GetExistingEvents ==
    /\ pc = "list"
    /\ \E events \in Listings(week) :
         /\ existing_events_map' = BuildExistingMap(events, EmptyDict)
         /\ listed' = {events[j] : j \in 1..Len(events)}
    /\ pc' = "sync"
    /\ UNCHANGED << inputs, gateway, run, i, appointments_to_sync, loop_locals,
                    budget, fetched, history >>

\* synchronize_week up to its for loop
SynchronizeWeek ==
    /\ pc = "sync"
    /\ appointments_to_sync' = SortByStart(appointments_to_sync)
    /\ last_day_processed' = <<>>
    /\ events_to_delete_keys' = DOMAIN existing_events_map
    /\ stats' = [create |-> 0, update |-> 0]
    /\ idx' = 1
    /\ visited' = {}
    /\ assigned' = <<>>
    /\ pc' = "loop"
    /\ UNCHANGED << inputs, gateway, run, i, existing_events_map, listed, budget,
                    fetched, history >>

\* ------------------------------------------------------------ the loop body
rdv == appointments_to_sync[idx]
sync_key == SyncKey(rdv)
reminder_minutes ==
    ReminderMinutes(rdv, last_day_processed, default_reminder, first_of_day_reminder)
target_body == BuildEventBody(rdv, sync_key, location_address, reminder_minutes)

InLoop == pc = "loop" /\ idx <= Len(appointments_to_sync)

\* mutant: the matched key is not taken out of the deletion set
DiscardNothing(keys, key) == keys

\* events_to_delete_keys.discard(sync_key)
Discard(keys, key) == keys \ {key}

\* mutant: the exception of a failed call is not caught
Uncaught(ok) == pc' = IF ok THEN pc ELSE "crashed"

\* except HttpError: the failure is printed and the loop goes on
Caught(ok) == UNCHANGED pc

\* mutant: a failed call is tried again
NextRdvRetry(ok) ==
    /\ last_day_processed' = IF ok THEN DayOf(rdv.start_date) ELSE last_day_processed
    /\ assigned' = IF ok THEN Append(assigned, reminder_minutes) ELSE assigned
    /\ idx' = IF ok THEN idx + 1 ELSE idx

\* the for loop goes to the next appointment, whether or not the call succeeded
NextRdv(ok) ==
    /\ last_day_processed' = DayOf(rdv.start_date)
    /\ assigned' = Append(assigned, reminder_minutes)
    /\ idx' = idx + 1

\* mutant: only calls that succeed are counted
Succeeded(count, ok) == IF ok THEN count + 1 ELSE count

\* stats[...] += 1 comes before the call: the attempt is counted
Attempted(count, ok) == count + 1

\* the key is not in the map: events().insert
CreateEvent(ok) ==
    /\ InLoop
    /\ sync_key \notin DOMAIN existing_events_map
    /\ Outcome(ok)
    /\ stats' = [stats EXCEPT !.create = Attempted(@, ok)]
    /\ calendar' = IF ok THEN Inserted(target_body) ELSE calendar
    /\ next_id' = IF ok THEN next_id + 1 ELSE next_id
    /\ log' = Append(log, Call("create", sync_key, IF ok THEN next_id ELSE 0, ok, target_body))
    /\ Caught(ok)
    /\ NextRdv(ok)
    /\ UNCHANGED << inputs, run, i, week_locals, events_to_delete_keys, visited,
                    fetched, weeks_done, prev_log, prev_weeks_done >>

\* the key is in the map and location or reminders differ: events().update
UpdateEvent(ok) ==
    /\ InLoop
    /\ sync_key \in DOMAIN existing_events_map
    /\ LET current_event == existing_events_map[sync_key]
       IN  /\ NeedsUpdate(current_event, target_body, location_address)
           /\ calendar' = IF ok THEN Updated(current_event.id, target_body) ELSE calendar
           /\ log' = Append(log, Call("update", sync_key, current_event.id, ok, target_body))
    /\ Outcome(ok)
    /\ events_to_delete_keys' = Discard(events_to_delete_keys, sync_key)
    /\ stats' = [stats EXCEPT !.update = Attempted(@, ok)]
    /\ Caught(ok)
    /\ NextRdv(ok)
    /\ UNCHANGED << inputs, next_id, run, i, week_locals, visited, fetched,
                    weeks_done, prev_log, prev_weeks_done >>

\* the key is in the map and nothing differs: the event is kept as it is
KeepEvent ==
    /\ InLoop
    /\ sync_key \in DOMAIN existing_events_map
    /\ ~NeedsUpdate(existing_events_map[sync_key], target_body, location_address)
    /\ events_to_delete_keys' = Discard(events_to_delete_keys, sync_key)
    /\ NextRdv(TRUE)
    /\ UNCHANGED << inputs, gateway, run, i, pc, week_locals, visited, stats,
                    budget, fetched, history >>

\* the for loop over the appointments ends: the counts are printed
PrintStats ==
    /\ pc = "loop"
    /\ idx > Len(appointments_to_sync)
    /\ pc' = "delete"
    /\ UNCHANGED << inputs, gateway, run, i, week_locals, loop_locals, budget,
                    fetched, history >>

\* mutant: deletions start while the appointments are still being processed
InDeleteLoopEarly == pc \in {"loop", "delete"}

\* the deletion loop runs after the loop over the appointments
InDeleteLoop == pc = "delete"

\* one iteration of the deletion loop, which visits the set in any order
DeleteEvent(ok) ==
    /\ InDeleteLoop
    /\ \E key \in events_to_delete_keys \ visited :
         LET eventId == existing_events_map[key].id
         IN  /\ calendar' = IF ok THEN Deleted(eventId) ELSE calendar
             /\ log' = Append(log, Call("delete", key, eventId, ok, EmptyDict))
             /\ visited' = visited \cup {key}
    /\ Outcome(ok)
    /\ Caught(ok)
    /\ UNCHANGED << inputs, next_id, run, i, week_locals, idx, last_day_processed,
                    events_to_delete_keys, stats, assigned, fetched, weeks_done,
                    prev_log, prev_weeks_done >>

\* synchronize_week returns and main() goes to the next week
WeekReturns ==
    /\ pc = "delete"
    /\ events_to_delete_keys \subseteq visited
    /\ weeks_done' = Append(weeks_done,
            [ week |-> week,
              fetched |-> fetched,
              source |-> appointments_to_sync,
              listed |-> listed,
              existing |-> existing_events_map,
              assigned |-> assigned,
              reported |-> [ create |-> stats.create, update |-> stats.update,
                             delete |-> Cardinality(events_to_delete_keys) ] ])
    /\ i' = i + 1
    /\ pc' = "fetch"
    /\ UNCHANGED << inputs, gateway, run, week_locals, loop_locals, budget, fetched,
                    log, prev_log, prev_weeks_done >>

Next ==
    \/ StartRun
    \/ FetchAppointments
    \/ FetchNoCookies
    \/ FetchHttpError
    \/ FetchUnreachable
    \/ MainReturns
    \/ ListHttpError
    \/ GetExistingEvents
    \/ SynchronizeWeek
    \/ \E ok \in BOOLEAN : CreateEvent(ok)
    \/ \E ok \in BOOLEAN : UpdateEvent(ok)
    \/ KeepEvent
    \/ PrintStats
    \/ \E ok \in BOOLEAN : DeleteEvent(ok)
    \/ WeekReturns

Spec == Init /\ [][Next]_vars

\* the steps of an execution in which no fetch and no gateway call fails
NextSingleWeek ==
    \/ StartRun
    \/ FetchAppointments
    \/ MainReturns
    \/ GetExistingEvents
    \/ SynchronizeWeek
    \/ CreateEvent(TRUE)
    \/ UpdateEvent(TRUE)
    \/ KeepEvent
    \/ PrintStats
    \/ DeleteEvent(TRUE)
    \/ WeekReturns

SpecSingleWeek == InitSingleWeek /\ [][NextSingleWeek]_vars

\* ------------------------------------------------------------ properties
\* the identity keys of a list of appointments
SourceKeys(source) == {SyncKey(source[j]) : j \in 1..Len(source)}

NoDuplicateKeys(source) ==
    \A j, k \in 1..Len(source) : j # k => SyncKey(source[j]) # SyncKey(source[k])

\* at most one event of the set carries any one sync key
OneEventPerKey(evs) ==
    \A e1, e2 \in evs :
        (ExtractSyncKey(e1) # <<>> /\ ExtractSyncKey(e1) = ExtractSyncKey(e2)) => e1 = e2

\* the calls of week w in a log
CallsOf(l, w) == SelectSeq(l, LAMBDA c : c.week = w)

AllSucceeded(l, w) == \A j \in 1..Len(l) : l[j].week = w => l[j].ok

\* pairs (a, b): week a of the previous execution and week b of this one are the
\* same week, synchronised with the same source
SameWeekTwice ==
    { p \in (1..Len(prev_weeks_done)) \X (1..Len(weeks_done)) :
        /\ prev_weeks_done[p[1]].week = weeks_done[p[2]].week
        /\ prev_weeks_done[p[1]].source = weeks_done[p[2]].source }

\* C1 as stated: when every gateway call of a week's run succeeded, the next run
\* of that week with the same source and configuration makes no gateway call
C1_Idempotence_Original ==
    \A p \in SameWeekTwice :
        LET w == weeks_done[p[2]].week
        IN  AllSucceeded(prev_log, w) => CallsOf(log, w) = <<>>

\* C1 amended: the same, provided no two source appointments share an identity key
\* and the calendar held at most one event per sync key before the first of the
\* two runs
C1_Idempotence ==
    \A p \in SameWeekTwice :
        LET w == weeks_done[p[2]].week
            first == prev_weeks_done[p[1]]
        IN  (/\ AllSucceeded(prev_log, w)
             /\ NoDuplicateKeys(first.source)
             /\ OneEventPerKey(first.listed))
            => CallsOf(log, w) = <<>>

\* a first run that created and updated, followed by a run that does nothing
C1_Witness ==
    \E p \in SameWeekTwice :
        LET w == weeks_done[p[2]].week
            first == prev_weeks_done[p[1]]
        IN  /\ AllSucceeded(prev_log, w)
            /\ NoDuplicateKeys(first.source)
            /\ OneEventPerKey(first.listed)
            /\ \A op \in {"create", "update"} :
                 \E j \in 1..Len(prev_log) : prev_log[j].week = w /\ prev_log[j].op = op
            /\ CallsOf(log, w) = <<>>

\* the number of delete calls of week w addressed to event id
DeletesOf(w, id) ==
    Cardinality({j \in 1..Len(log) :
                    log[j].week = w /\ log[j].op = "delete" /\ log[j].id = id})

\* C2: when synchronize_week returns, every key of the existing map that is the key
\* of no source appointment has had exactly one delete call, addressed to the id of
\* the event stored under it; the events stored under the other keys have had none,
\* and no other delete call was made
C2_DeletionCompleteness ==
    \A b \in 1..Len(weeks_done) :
        LET d == weeks_done[b]
            stale == DOMAIN d.existing \ SourceKeys(d.source)
        IN  /\ \A k \in DOMAIN d.existing :
                 DeletesOf(d.week, d.existing[k].id) = IF k \in stale THEN 1 ELSE 0
            /\ Cardinality({j \in 1..Len(log) :
                              log[j].week = d.week /\ log[j].op = "delete"})
                 = Cardinality(stale)

\* a week with a stale key, which was deleted, and a matched key, which was not
C2_Witness ==
    \E b \in 1..Len(weeks_done) :
        LET d == weeks_done[b]
        IN  /\ DOMAIN d.existing \ SourceKeys(d.source) # {}
            /\ DOMAIN d.existing \cap SourceKeys(d.source) # {}
            /\ \E j \in 1..Len(log) : log[j].week = d.week /\ log[j].op = "delete"

\* the event's location and reminders are exactly those of the projected body
ExactMatch(event, body) ==
    /\ Get(event, "location", <<>>) = Get(body, "location", <<>>)
    /\ Get(event, "reminders", EmptyDict) = body.reminders

\* call c is made for key: a create of a body carrying it, or an update or delete
\* of the event the map stores under it
CallFor(c, key, existing) ==
    IF c.op = "create"
    THEN ExtractSyncKey(c.body) = key
    ELSE key \in DOMAIN existing /\ c.id = existing[key].id

\* the body projected for the j-th appointment of a returned week
Projected(d, j) ==
    BuildEventBody(d.source[j], SyncKey(d.source[j]), location_address, d.assigned[j])

\* the j-th appointment of returned week d has its key in the map and the event
\* stored there matches its projection
Unchanged(d, j) ==
    /\ SyncKey(d.source[j]) \in DOMAIN d.existing
    /\ ExactMatch(d.existing[SyncKey(d.source[j])], Projected(d, j))

NoCallFor(d, key) ==
    \A n \in 1..Len(log) : log[n].week = d.week => ~CallFor(log[n], key, d.existing)

AllListed ==
    listed \cup UNION {weeks_done[b].listed : b \in 1..Len(weeks_done)}
           \cup UNION {prev_weeks_done[b].listed : b \in 1..Len(prev_weeks_done)}

\* the listed events whose description gives no sync key
Keyless == {e \in AllListed : ExtractSyncKey(e) = <<>>}

\* C4: an event without extractable sync key is never entered in the existing map,
\* never the target of an update or delete call, and stays in the calendar as it is
C4_KeylessUntouched ==
    \A e \in Keyless :
        /\ e \in calendar
        /\ \A k \in DOMAIN existing_events_map : existing_events_map[k].id # e.id
        /\ \A b \in 1..Len(weeks_done) :
             \A k \in DOMAIN weeks_done[b].existing : weeks_done[b].existing[k].id # e.id
        /\ \A n \in 1..Len(log) : log[n].op \in {"update", "delete"} => log[n].id # e.id
        /\ \A n \in 1..Len(prev_log) :
             prev_log[n].op \in {"update", "delete"} => prev_log[n].id # e.id

\* both keyless events were listed in a week in which events were updated and deleted
C4_Witness ==
    /\ pc = "returned"
    /\ Cardinality(Keyless) = 2
    /\ \E n \in 1..Len(log) : log[n].op = "update" /\ log[n].ok
    /\ \E n \in 1..Len(log) : log[n].op = "delete" /\ log[n].ok

\* the number of elements of a sequence that are equal to x
Occurrences(seq, x) == Cardinality({j \in 1..Len(seq) : seq[j] = x})

\* two sequences hold the same elements, each as many times
SameElements(s1, s2) ==
    /\ Len(s1) = Len(s2)
    /\ \A j \in 1..Len(s1) : Occurrences(s1, s1[j]) = Occurrences(s2, s1[j])

\* no appointment of the list starts after one that follows it
Ascending(source) ==
    \A j, k \in 1..Len(source) :
        j < k => ~StrLess(source[k].start_date, source[j].start_date)

\* appointment j is the earliest of the list on its calendar day
FirstOfItsDay(source, j) ==
    \A k \in 1..(j - 1) : DayOf(source[k].start_date) # DayOf(source[j].start_date)

\* C5: whatever the fetch order, the appointments of a synchronised week are
\* processed in ascending start order, and each one is assigned the first-of-day
\* minutes when these are positive and it is the earliest of its calendar day, the
\* default minutes otherwise
C5_FirstOfDayPolicy ==
    \A b \in 1..Len(weeks_done) :
        LET d == weeks_done[b]
        IN  /\ SameElements(d.source, CleanedData(feed[d.week]))
            /\ Ascending(d.source)
            /\ Len(d.assigned) = Len(d.source)
            /\ \A j \in 1..Len(d.source) :
                 d.assigned[j] =
                     IF first_of_day_reminder > 0 /\ FirstOfItsDay(d.source, j)
                     THEN first_of_day_reminder
                     ELSE default_reminder

\* the example of the claim, fetched out of order: 09:00 and 11:00 on one day, 09:30
\* on the next, default 30 and first-of-day 60 give 60, 30, 60
C5_Witness ==
    /\ pc = "returned"
    /\ config = [first_of_day |-> 60]
    /\ feed[1] = <<RecordA, RecordC, RecordB>>
    /\ Len(weeks_done) = 1
    /\ weeks_done[1].source = CleanedData(<<RecordA, RecordB, RecordC>>)
    /\ weeks_done[1].assigned = <<60, 30, 60>>

\* the reminders of a body are those that reminder minutes m stand for
Sentinel(body, m) ==
    IF m = 0
    THEN body.reminders = [useDefault |-> TRUE]
    ELSE body.reminders = [ useDefault |-> FALSE,
                            overrides |-> <<[method |-> "popup", minutes |-> m]>> ]

\* the body carries an explicit override of 0 minutes
ZeroOverride(body) ==
    /\ "overrides" \in DOMAIN body.reminders
    /\ \E j \in 1..Len(body.reminders.overrides) : body.reminders.overrides[j].minutes = 0

\* C6: an appointment that is assigned 0 minutes is projected with the use-default
\* flag set and no override, one that is assigned m > 0 minutes with the flag
\* cleared and the single override of m minutes; no body sent to the gateway
\* carries an override of 0 minutes
C6_UseDefaultSentinel ==
    /\ InLoop => Sentinel(target_body, reminder_minutes)
    /\ \A n \in 1..Len(log) :
         log[n].op \in {"create", "update"} =>
             /\ ~ZeroOverride(log[n].body)
             /\ \E m \in {default_reminder, first_of_day_reminder} : Sentinel(log[n].body, m)

\* an appointment assigned 0 minutes is about to be projected, after the first of
\* its day was sent with an override of 60 minutes
C6_Witness ==
    /\ InLoop
    /\ reminder_minutes = 0
    /\ target_body.reminders = [useDefault |-> TRUE]
    /\ \E n \in 1..Len(log) :
         /\ log[n].op = "create"
         /\ log[n].body.reminders.useDefault = FALSE
         /\ log[n].body.reminders.overrides[1].minutes = 60

\* C7 as stated: among the calls of one week, no update precedes a create and no
\* delete precedes a create or an update
C7_OperationOrdering_Original ==
    \A j, k \in 1..Len(log) :
        (j < k /\ log[j].week = log[k].week) =>
            /\ ~(log[j].op = "update" /\ log[k].op = "create")
            /\ ~(log[j].op = "delete" /\ log[k].op \in {"create", "update"})

\* C7 amended: among the calls of one week, the creates and updates come in
\* ascending start order of their appointments, interleaved, and every delete comes
\* after all of them
C7_OperationOrdering ==
    \A j, k \in 1..Len(log) :
        (j < k /\ log[j].week = log[k].week) =>
            /\ log[j].op = "delete" => log[k].op = "delete"
            /\ (log[j].op # "delete" /\ log[k].op # "delete") =>
                   ~StrLess(log[k].body.start.dateTime, log[j].body.start.dateTime)

\* a week in which the update of an earlier appointment preceded the create of a
\* later one
C7_Witness ==
    \E j, k \in 1..Len(log) :
        /\ j < k
        /\ log[j].week = log[k].week
        /\ log[j].op = "update"
        /\ log[k].op = "create"
        /\ StrLess(log[j].body.start.dateTime, log[k].body.start.dateTime)
        /\ \E b \in 1..Len(weeks_done) : weeks_done[b].week = log[j].week

\* the appointments of returned week d that the diff creates
ToCreate(d) ==
    {j \in 1..Len(d.source) : SyncKey(d.source[j]) \notin DOMAIN d.existing}

\* the appointments of returned week d that the diff updates
ToUpdate(d) ==
    {j \in 1..Len(d.source) :
        /\ SyncKey(d.source[j]) \in DOMAIN d.existing
        /\ NeedsUpdate(d.existing[SyncKey(d.source[j])], Projected(d, j), location_address)}

\* the keys of returned week d that the diff deletes
ToDelete(d) == DOMAIN d.existing \ SourceKeys(d.source)

\* the positions in the log of the calls of week w with operation op
CallsWith(w, op) == {n \in 1..Len(log) : log[n].week = w /\ log[n].op = op}

FetchFailed == pc = "fetch" /\ fetched' \in {"http_error", "unreachable"}

\* C9 as stated: a failed fetch makes no gateway call for the week and main() goes
\* on with the next week
C9_FetchFailure_Original ==
    [][FetchFailed => (log' = log /\ calendar' = calendar /\ pc' = "fetch" /\ i' = i + 1)]_vars

\* C9 amended: a fetch that fails with an error status or because the source is
\* unreachable makes no gateway call for the week and ends the run: no later week is
\* synchronised before the program is started again
C9_FetchFailure ==
    /\ [][FetchFailed => (/\ log' = log
                          /\ calendar' = calendar
                          /\ weeks_done' = weeks_done
                          /\ i' = i
                          /\ pc' \in {"stopped", "crashed"})]_vars
    /\ [][(pc \in {"stopped", "crashed"}) => (run' = run + 1 /\ i' = 0 /\ log' = <<>>)]_vars
    /\ [](fetched \in {"http_error", "unreachable"} =>
            /\ pc \in {"stopped", "crashed"}
            /\ \A n \in 1..Len(log) : log[n].week < week
            /\ \A b \in 1..Len(weeks_done) : weeks_done[b].week < week)

\* the fetch of the first week failed with an error status in an execution that
\* follows a complete one: the second week is not synchronised
C9_Witness ==
    /\ pc = "stopped"
    /\ fetched = "http_error"
    /\ week = 1
    /\ n_weeks > 1
    /\ log = <<>>
    /\ weeks_done = <<>>
    /\ Len(prev_weeks_done) = n_weeks

\* two calls are the same operation on the same target with the same body
SameOperation(c1, c2) ==
    /\ c1.week = c2.week
    /\ c1.op = c2.op
    /\ c1.key = c2.key
    /\ c1.body = c2.body
    /\ c1.op # "create" => c1.id = c2.id

\* no call of the log that failed is made again in the same execution
NoRetry(l) ==
    \A j, k \in 1..Len(l) : (j < k /\ ~l[j].ok) => ~SameOperation(l[j], l[k])

\* the failed calls of week w in the previous execution with operation op
FailedBefore(w, op) ==
    {n \in 1..Len(prev_log) :
        prev_log[n].week = w /\ prev_log[n].op = op /\ ~prev_log[n].ok}

\* C10 as stated: no call is retried within a run; a create that failed is followed,
\* in the next run of the week with the same source, by a create for the same key,
\* and a delete that failed by a delete of the same event
C10_SelfHealing_Original ==
    /\ NoRetry(log)
    /\ \A p \in SameWeekTwice :
        LET w == weeks_done[p[2]].week
        IN  /\ \A n \in FailedBefore(w, "create") :
                 \E m \in CallsWith(w, "create") : log[m].key = prev_log[n].key
            /\ \A n \in FailedBefore(w, "delete") :
                 \E m \in CallsWith(w, "delete") : log[m].id = prev_log[n].id

\* C10 amended: the same, for a create provided no two source appointments share an
\* identity key, and for a delete provided the calendar holds at most one event per
\* sync key
C10_SelfHealing ==
    /\ NoRetry(log)
    /\ \A p \in SameWeekTwice :
        LET w == weeks_done[p[2]].week
            first == prev_weeks_done[p[1]]
        IN  /\ NoDuplicateKeys(first.source) =>
                 \A n \in FailedBefore(w, "create") :
                     \E m \in CallsWith(w, "create") : log[m].key = prev_log[n].key
            /\ OneEventPerKey(first.listed) =>
                 \A n \in FailedBefore(w, "delete") :
                     \E m \in CallsWith(w, "delete") : log[m].id = prev_log[n].id

\* a create failed in the previous execution, no later call of that execution
\* repeated it, and this execution has made the create for the same key
C10_Witness ==
    \E p \in SameWeekTwice :
        LET w == weeks_done[p[2]].week
            first == prev_weeks_done[p[1]]
        IN  /\ NoDuplicateKeys(first.source)
            /\ OneEventPerKey(first.listed)
            /\ FailedBefore(w, "create") # {}
            /\ \A n \in FailedBefore(w, "create") :
                 /\ \E k \in 1..Len(prev_log) : k > n /\ prev_log[k].week = w
                 /\ \E m \in CallsWith(w, "create") :
                        log[m].key = prev_log[n].key /\ log[m].ok

\* the existing map that the calls of week w in the log were planned against
ExistingOf(w) ==
    IF \E b \in 1..Len(weeks_done) : weeks_done[b].week = w
    THEN weeks_done[CHOOSE b \in 1..Len(weeks_done) : weeks_done[b].week = w].existing
    ELSE existing_events_map

\* the keys that receive a call with operation op in week w
KeysWith(w, op) == {log[n].key : n \in CallsWith(w, op)}

\* the weeks that have calls in the log
WeeksCalled == {log[n].week : n \in 1..Len(log)}

\* C11: in every week's run a create is issued only for a key absent from the
\* existing map, an update and a delete only for keys present in it, and the sets
\* of keys that receive a create, an update and a delete are pairwise disjoint
C11_PlanDisjointness ==
    \A w \in WeeksCalled :
        /\ KeysWith(w, "create") \cap DOMAIN ExistingOf(w) = {}
        /\ KeysWith(w, "update") \subseteq DOMAIN ExistingOf(w)
        /\ KeysWith(w, "delete") \subseteq DOMAIN ExistingOf(w)
        /\ KeysWith(w, "create") \cap KeysWith(w, "update") = {}
        /\ KeysWith(w, "create") \cap KeysWith(w, "delete") = {}
        /\ KeysWith(w, "update") \cap KeysWith(w, "delete") = {}

\* a returned week in which one key was created, another updated and a third deleted
C11_Witness ==
    /\ pc = "returned"
    /\ \E w \in WeeksCalled :
         \A op \in {"create", "update", "delete"} : KeysWith(w, op) # {}

\* the event differs from the body in location or in reminders
Differs(event, body) == ~ExactMatch(event, body)

\* the event differs from the body in location, once the blanks around the event's
\* location are removed, or in reminders
DiffersStripped(event, body) ==
    \/ Strip(Get(event, "location", <<>>)) # Get(body, "location", <<>>)
    \/ Get(event, "reminders", EmptyDict) # body.reminders

\* in returned week d the j-th appointment has had an update of the event stored
\* under its key, with its projection as payload, and no create and no delete has
\* been issued for its key
UpdatedOnly(d, j) ==
    LET key == SyncKey(d.source[j])
    IN  /\ \E n \in CallsWith(d.week, "update") :
             /\ log[n].id = d.existing[key].id
             /\ log[n].body = Projected(d, j)
        /\ key \notin KeysWith(d.week, "create")
        /\ key \notin KeysWith(d.week, "delete")

\* C12 as stated: every source appointment whose key is in the existing map and
\* whose existing event differs from its projection in location or in reminders
\* gets an update with the existing id and the projected payload, and no create and
\* no delete for its key
C12_UpdateOnDifference_Original ==
    \A b \in 1..Len(weeks_done) :
        LET d == weeks_done[b]
        IN  \A j \in 1..Len(d.source) :
                (/\ SyncKey(d.source[j]) \in DOMAIN d.existing
                 /\ Differs(d.existing[SyncKey(d.source[j])], Projected(d, j)))
                => UpdatedOnly(d, j)

\* C12 amended: the same, where the location of the existing event is compared
\* after the blanks around it are removed
C12_UpdateOnDifference ==
    \A b \in 1..Len(weeks_done) :
        LET d == weeks_done[b]
        IN  \A j \in 1..Len(d.source) :
                (/\ SyncKey(d.source[j]) \in DOMAIN d.existing
                 /\ DiffersStripped(d.existing[SyncKey(d.source[j])], Projected(d, j)))
                => UpdatedOnly(d, j)

\* the example of the claim: the event has no location and default reminders, the
\* configured location is Clinic A, and the run makes the one update of that event
C12_Witness ==
    /\ pc = "returned"
    /\ config = [notification |-> 0, localisation |-> <<" ", "Clinic A", " ">>]
    /\ Len(weeks_done) = 1
    /\ weeks_done[1].source = CleanedData(<<RecordA>>)
    /\ weeks_done[1].existing = (SyncKey(CleanOne(RecordA)[1]) :> SyncedA)
    /\ Len(log) = 1
    /\ log[1].op = "update"
    /\ log[1].id = SyncedA.id
    /\ log[1].body.location = <<"Clinic A">>
    /\ log[1].body.reminders = SyncedA.reminders

\* the appointments processed in this execution and in the previous one
Processed ==
    UNION {{weeks_done[b].source[j] : j \in 1..Len(weeks_done[b].source)} :
              b \in 1..Len(weeks_done)}
    \cup UNION {{prev_weeks_done[b].source[j] : j \in 1..Len(prev_weeks_done[b].source)} :
                   b \in 1..Len(prev_weeks_done)}
    \cup {appointments_to_sync[j] : j \in 1..Len(appointments_to_sync)}

\* the create and update calls of this execution and of the previous one
Writes ==
    {log[n] : n \in {k \in 1..Len(log) : log[k].op # "delete"}}
    \cup {prev_log[n] : n \in {k \in 1..Len(prev_log) : prev_log[k].op # "delete"}}

\* C13: two source appointments with the same start time, end time and new-patient
\* flag are given the same identity key, whatever their status, their position in
\* the week and the run that processes them; so are the calls made for them
C13_KeyDeterminism ==
    /\ \A a, b \in Processed :
         (/\ a.start_date = b.start_date
          /\ a.end_date = b.end_date
          /\ a.new_patient = b.new_patient)
         => SyncKey(a) = SyncKey(b)
    /\ \A c1, c2 \in Writes :
         (/\ c1.body.start.dateTime = c2.body.start.dateTime
          /\ c1.body.end.dateTime = c2.body.end.dateTime
          /\ Head(c1.body.summary) = Head(c2.body.summary))
         => c1.key = c2.key

\* a call of the previous execution and a call of this one, for two records of one
\* slot that differ in status, carry the same key
C13_Witness ==
    \E c1 \in {prev_log[n] : n \in 1..Len(prev_log)}, c2 \in {log[n] : n \in 1..Len(log)} :
        /\ c1.op # "delete"
        /\ c2.op # "delete"
        /\ c1.body.summary # c2.body.summary
        /\ c1.body.start = c2.body.start
        /\ c1.key = c2.key

\* the sync keys carried by the marked events of week w in the calendar
DestinationKeys(w) ==
    {ExtractSyncKey(e) : e \in {x \in calendar : WeekOfEvent(x) = w}} \ {<<>>}

\* C14 as stated: after a week's run in which every gateway call succeeded, the
\* sync keys of the marked events of that week are the identity keys of the week's
\* source appointments
C14_Convergence_Original ==
    \A b \in 1..Len(weeks_done) :
        LET d == weeks_done[b]
        IN  AllSucceeded(log, d.week) => DestinationKeys(d.week) = SourceKeys(d.source)

\* C14 amended: the same, provided the calendar held at most one marked event per
\* sync key when the week was listed
C14_Convergence ==
    \A b \in 1..Len(weeks_done) :
        LET d == weeks_done[b]
        IN  (AllSucceeded(log, d.week) /\ OneEventPerKey(d.listed))
            => DestinationKeys(d.week) = SourceKeys(d.source)

\* a week in which a key found only in the source was created and a key found only
\* in the calendar was deleted, after which the two sets of keys are equal
C14_Witness ==
    \E b \in 1..Len(weeks_done) :
        LET d == weeks_done[b]
        IN  /\ AllSucceeded(log, d.week)
            /\ OneEventPerKey(d.listed)
            /\ KeysWith(d.week, "create") # {}
            /\ KeysWith(d.week, "delete") # {}
            /\ DestinationKeys(d.week) = SourceKeys(d.source)
            /\ KeysWith(d.week, "create") \subseteq DestinationKeys(d.week)
            /\ KeysWith(d.week, "delete") \cap DestinationKeys(d.week) = {}

\* the keys that more than one appointment of the list has
SharedKeys(source) ==
    {SyncKey(source[j]) : j \in {k \in 1..Len(source) :
        \E l \in 1..Len(source) : l # k /\ SyncKey(source[l]) = SyncKey(source[k])}}

\* the positions in the log of the create and update calls of week w for key
WritesFor(w, key) ==
    {n \in 1..Len(log) : log[n].week = w /\ log[n].op # "delete" /\ log[n].key = key}

\* C15: when two source appointments of a week share an identity key, the run
\* issues at most one create or update for that key
C15_DuplicateSourceKeys ==
    \A b \in 1..Len(weeks_done) :
        \A key \in SharedKeys(weeks_done[b].source) :
            Cardinality(WritesFor(weeks_done[b].week, key)) <= 1

\* no response of the source holds two appointments with the same identity key
SourceNeverDuplicates ==
    \A w \in 1..n_weeks : NoDuplicateKeys(CleanedData(feed[w]))

\* C16: if the source never holds two appointments with the same identity key, no
\* step of a run, whether its gateway call fails or not, takes a calendar with at
\* most one marked event per sync key to one with two marked events for a key; so a
\* calendar that initially holds at most one marked event per sync key does so
\* after any sequence of runs
C16_OneEventPerKey ==
    [][(SourceNeverDuplicates /\ OneEventPerKey(calendar)) => OneEventPerKey(calendar')]_vars

\* the marked events of the calendar
Marked == {e \in calendar : ExtractSyncKey(e) # <<>>}

\* the second run has returned after a call of the first one failed; the calendar,
\* from which neither run deleted anything and which held the first event of the
\* 09:00 slot but not the second, holds two marked events of the first week, each
\* with a key of its own
C16_Witness ==
    /\ pc = "returned"
    /\ run = 2
    /\ SourceNeverDuplicates
    /\ \E n \in 1..Len(prev_log) : ~prev_log[n].ok
    /\ \A n \in 1..Len(prev_log) : prev_log[n].op # "delete"
    /\ \A n \in 1..Len(log) : log[n].op # "delete"
    /\ SyncedA.id \in {e.id : e \in Marked}
    /\ SyncedA2.id \notin {e.id : e \in Marked}
    /\ Cardinality({e \in Marked : WeekOfEvent(e) = 1}) = 2
    /\ OneEventPerKey(calendar)

\* every event an events().list call returned in this execution
ListedNow == listed \cup UNION {weeks_done[b].listed : b \in 1..Len(weeks_done)}

\* the description ends with the marker, a blank and the key
EndsWithKey(description, key) ==
    /\ Len(description) >= Len(key) + 2
    /\ SubSeq(description, Len(description) - Len(key) + 1, Len(description)) = key
    /\ description[Len(description) - Len(key)] = " "
    /\ description[Len(description) - Len(key) - 1] = Marker

\* C17: the description of every body projected for a source appointment holds the
\* marker followed by the appointment's identity key, and the key extracted from
\* the description of an event a previous run created or updated, when a later run
\* lists it, is that key
C17_KeyRoundTrip ==
    /\ \A c \in Writes :
         /\ EndsWithKey(c.body.description, c.key)
         /\ ExtractSyncKey(c.body) = c.key
    /\ InLoop =>
         /\ EndsWithKey(target_body.description, SyncKey(rdv))
         /\ ExtractSyncKey(target_body) = SyncKey(rdv)
    /\ \A n \in 1..Len(prev_log) :
         (prev_log[n].op = "create" /\ prev_log[n].ok) =>
             \A e \in ListedNow :
                 e.id = prev_log[n].id =>
                     /\ ExtractSyncKey(e) = prev_log[n].key
                     /\ e.description = prev_log[n].body.description

\* an event created by the previous run has been listed by this one and is stored
\* in the existing map under the key it was created for
C17_Witness ==
    \E n \in 1..Len(prev_log) :
        /\ prev_log[n].op = "create"
        /\ prev_log[n].ok
        /\ prev_log[n].key # <<>>
        /\ \E b \in 1..Len(weeks_done) :
             /\ prev_log[n].key \in DOMAIN weeks_done[b].existing
             /\ weeks_done[b].existing[prev_log[n].key].id = prev_log[n].id

\* the record is one the claim says is filtered: its status is "deleted" in some
\* letter case, or its start or its end is missing or empty
Filtered(record) ==
    \/ Lower(Get(record, "status", <<"confirmed">>)) = <<"deleted">>
    \/ Get(record, "start_date", <<>>) = <<>>
    \/ Get(record, "end_date", <<>>) = <<>>

\* the records of a response that are filtered, and those that are not
FilteredOf(data) == {data[j] : j \in {k \in 1..Len(data) : Filtered(data[k])}}
KeptOf(data) == {data[j] : j \in {k \in 1..Len(data) : ~Filtered(data[k])}}

\* the identity key of a record of the response that has both times
RawKey(record) ==
    record.start_date \o <<"|">> \o record.end_date \o <<"|">>
        \o StrBool(Get(record, "new_patient", FALSE))

\* the appointments synchronised in returned week d are the records of the
\* response that are not filtered, and every create and update is for one of them
OnlyKeptWritten(d) ==
    LET data == feed[d.week]
    IN  /\ \A j \in 1..Len(d.source) :
             \E r \in KeptOf(data) :
                 /\ d.source[j].start_date = r.start_date
                 /\ d.source[j].end_date = r.end_date
                 /\ d.source[j].status = Get(r, "status", <<"confirmed">>)
        /\ Len(d.source) = Cardinality({k \in 1..Len(data) : ~Filtered(data[k])})
        /\ KeysWith(d.week, "create") \cup KeysWith(d.week, "update")
               \subseteq {RawKey(r) : r \in KeptOf(data)}

\* the keys of the filtered records of a response that have both times
FilteredKeys(data) ==
    {RawKey(r) : r \in {x \in FilteredOf(data) :
        Get(x, "start_date", <<>>) # <<>> /\ Get(x, "end_date", <<>>) # <<>>}}

\* every marked event listed in returned week d whose key is that of a filtered
\* record and of no record that is kept has had a delete call and is gone from the
\* calendar
UnmatchedDeleted(d) ==
    \A e \in d.listed :
        (/\ ExtractSyncKey(e) \in FilteredKeys(feed[d.week])
         /\ ExtractSyncKey(e) \notin {RawKey(r) : r \in KeptOf(feed[d.week])})
        => /\ \E n \in CallsWith(d.week, "delete") : log[n].id = e.id
           /\ \A x \in calendar : x.id # e.id

\* C18 as stated: a fetched record whose status is "deleted" in any letter case, or
\* whose start or end time is missing or empty, causes no create and no update,
\* and a marked event that matches only such a record is deleted by the run
C18_UpstreamFiltering_Original ==
    \A b \in 1..Len(weeks_done) :
        OnlyKeptWritten(weeks_done[b]) /\ UnmatchedDeleted(weeks_done[b])

\* C18 amended: the same, the deletion provided the calendar holds at most one
\* marked event per sync key when the week is listed
C18_UpstreamFiltering ==
    \A b \in 1..Len(weeks_done) :
        /\ OnlyKeptWritten(weeks_done[b])
        /\ OneEventPerKey(weeks_done[b].listed) => UnmatchedDeleted(weeks_done[b])

\* a week whose response holds a record with status Deleted in the 09:00 slot and a
\* record without end time: nothing is written for the 09:00 slot and its event,
\* which matches the deleted record only, is deleted
C18_Witness ==
    /\ pc = "returned"
    /\ RecordX \in FilteredOf(feed[1])
    /\ RecordY \in FilteredOf(feed[1])
    /\ KeptOf(feed[1]) = {RecordC}
    /\ Len(weeks_done) = 1
    /\ weeks_done[1].source = CleanedData(<<RecordC>>)
    /\ RawKey(RecordX) \in DOMAIN weeks_done[1].existing
    /\ KeysWith(1, "create") = {RawKey(RecordC)}
    /\ RawKey(RecordX) \in KeysWith(1, "delete")
    /\ OneEventPerKey(weeks_done[1].listed)
    /\ \A e \in calendar : ExtractSyncKey(e) # RawKey(RecordX)

\* C19: the counts of creates, updates and deletes reported for a week are the
\* numbers of create, update and delete calls made in that week's run, failed
\* calls included
C19_AttemptCounting ==
    \A b \in 1..Len(weeks_done) :
        LET d == weeks_done[b]
        IN  /\ d.reported.create = Cardinality(CallsWith(d.week, "create"))
            /\ d.reported.update = Cardinality(CallsWith(d.week, "update"))
            /\ d.reported.delete = Cardinality(CallsWith(d.week, "delete"))

\* a returned week for which two calls are reported, one of which failed
C19_Witness ==
    \E b \in 1..Len(weeks_done) :
        LET d == weeks_done[b]
        IN  /\ d.reported.create + d.reported.update + d.reported.delete = 2
            /\ Cardinality({n \in 1..Len(log) : log[n].week = d.week /\ ~log[n].ok}) = 1
            /\ Cardinality({n \in 1..Len(log) : log[n].week = d.week}) = 2

=============================================================================
